---- MODULE Spec2Model ----
(***************************************************************************)
(* A model of ct-brands.py: the retry loops around the Competitive Tracker *)
(* API, the construction of CompanyDomainResult lists and the CSV          *)
(* ResultWriter.                                                           *)
(*                                                                         *)
(* Python values are represented as follows.                               *)
(*   None (an object or a handle)   the record NoneObj                     *)
(*   None (a string field)          the string "None"                      *)
(*   a list of ESP names            [kind |-> "list", items |-> <<..>>]    *)
(*   a set of ESP names             [kind |-> "set",  items |-> {..}]      *)
(*   a CompanyDomainResult          a record of its attributes             *)
(*   a line of the output file      [kind |-> "header", fieldnames |-> _]  *)
(*                                  [kind |-> "row", data |-> _]           *)
(***************************************************************************)
EXTENDS Integers, Sequences, FiniteSets, TLC

VARIABLES
    verbose,    \* ResultWriter.verbose (args.verbose)
    fh,         \* ResultWriter.fh: NoneObj, or the DictWriter with its fieldnames
    result,     \* the list of CompanyDomainResult handed to write / built by the resolver
    out,        \* the lines written to args.outfile for the current list of the caller
    headers,    \* the number of header rows written to args.outfile since the start of the run
    pc,         \* position of the program
    crashed,    \* an uncaught Python exception ended the process
    brands_in,  \* the remote service's data on the company's brands, one entry per brand:
                \* the brand's name, its top domains and the volume/ESP breakdown of these
    inline,     \* whether the company entity carried its brands ('brands' is not None)
    result_none, \* whether the resolver returned None instead of a list
    input_type, \* args.input_type
    ntokens,    \* the number of input tokens main has taken
    world,      \* what the remote service holds
    stack,      \* the active calls of get_company_info_from_* and company_info, innermost last
    mcr,        \* the active call of make_company_results, or NoneObj
    loop,       \* the retry loop being executed, or NoneObj
    ret,        \* the value a call has just returned
    api_calls,  \* the api_calls dictionary of the current token
    slept,      \* the seconds spent in time.sleep
    errs,       \* the number of errors the remote service has raised
    succeeded,  \* per call name, the invocations of the current token that returned a response
    stderr      \* the lines printed with eprint since the current token was taken:
                \* "err" for eprint(err), "skipped" for the skip notice of main,
                \* "daily_limit" and "pausing" for the notices of rate_limiting_in

runvars == <<input_type, ntokens, world, stack, mcr, loop, ret, api_calls, slept, errs, succeeded, stderr>>

vars == <<verbose, fh, result, out, headers, pc, crashed, brands_in, inline, result_none, runvars>>

(***************************************************************************)
(* Bounds of the model.                                                    *)
(***************************************************************************)
MaxLen == 3         \* longest record list handed directly to ResultWriter.write
MaxBrands == 2      \* most brands in a company's brand list
MaxDomains == 2     \* most sending domains returned for one brand
MaxEntries == 1     \* most entries the volume/ESP breakdown lists for one domain
MaxTokens == 2      \* most input tokens of a run
MaxErrors == 2      \* most errors the remote service raises in a run
MaxMsgs == 2        \* most messages in the errors list of an error handed to the classifier
RecursionLimit == 8  \* the Python frames that fit above the main loop under the
                    \* interpreter's recursion limit (sys.getrecursionlimit(), scaled
                    \* down): a call that needs a frame beyond them raises
                    \* RecursionError; every hierarchy without a cycle that the
                    \* model draws stays below
MaxClientFrames == 2 \* most frames a call of the client library takes

NoneObj == [none |-> TRUE]

\* the state of a program that is not running the main loop over remote calls
RunIdle ==
    /\ input_type = "website"
    /\ ntokens = 0
    /\ world = NoneObj
    /\ stack = <<>>
    /\ mcr = NoneObj
    /\ loop = NoneObj
    /\ ret = NoneObj
    /\ api_calls = <<>>
    /\ slept = 0
    /\ errs = 0
    /\ succeeded = <<>>
    /\ stderr = <<>>

PyList(s) == [kind |-> "list", items |-> s]
PySet(S) == [kind |-> "set", items |-> S]
PyStr(s) == [kind |-> "str", items |-> s]

\* Python ==, on two values of ESPs: a list never equals a set or a string,
\* lists are equal when they hold the same names in the same order.
PyEq(a, b) == a.kind = b.kind /\ a.items = b.items

(***************************************************************************)
(* CompanyDomainResult                                                     *)
(***************************************************************************)
CompanyDomainResult(website, company_name, brand_name) ==
    [website |-> website, company_name |-> company_name, brand_name |-> brand_name,
     domain |-> "None", volume |-> 0, ESPs |-> PySet({})]

\* ','.join(items)
RECURSIVE join(_)
join(items) ==
    IF Len(items) = 0 THEN ""
    ELSE IF Len(items) = 1 THEN items[1]
    ELSE items[1] \o "," \o join(Tail(items))

\* to_dict: a copy of the attributes, a list of ESPs flattened to a string
\* (a string stays the string it is).
\* d is a record with an ESPs field (a result, or a summary accumulator).
to_dict(d) ==
    IF d.ESPs.kind = "list" THEN [d EXCEPT !.ESPs = join(d.ESPs.items)]
    ELSE IF d.ESPs.kind = "str" THEN [d EXCEPT !.ESPs = d.ESPs.items]
    ELSE d

(***************************************************************************)
(* make_company_results, given the responses of the remote service.        *)
(*                                                                         *)
(* A brand of the remote service is [name, domains, vol_esps]: domains is  *)
(* the response of get_top_domains, a list of [name, projectedVolume];     *)
(* vol_esps is the response of get_brand_volume_and_esps for the brand's   *)
(* domain names, a mapping from a domain name to a list of entries, each   *)
(* entry being its list of ESP names.                                      *)
(*                                                                         *)
(* The list under construction holds references: heap[k] is the one        *)
(* CompanyDomainResult made for the k-th brand, refs the references        *)
(* appended so far.                                                        *)
(***************************************************************************)

\* { d['name']: d['projectedVolume'] for d in domains }: the keys in the order
\* of their first occurrence, each with the value of its last occurrence
RECURSIVE domain_name_vol(_)
domain_name_vol(domains) ==
    IF Len(domains) = 0 THEN <<>>
    ELSE LET front == domain_name_vol(SubSeq(domains, 1, Len(domains) - 1))
             d == domains[Len(domains)]
         IN  IF \E k \in 1..Len(front) : front[k].name = d.name
             THEN [k \in 1..Len(front) |->
                       IF front[k].name = d.name
                       THEN [name |-> d.name, projectedVolume |-> d.projectedVolume]
                       ELSE front[k]]
             ELSE Append(front, [name |-> d.name, projectedVolume |-> d.projectedVolume])

\* "for j in i": one assignment of res and one append per entry of the domain
RECURSIVE entries_loop(_, _, _, _, _)
entries_loop(st, k, item, entries, j) ==
    IF j > Len(entries) THEN st
    ELSE entries_loop(
            [heap |-> [st.heap EXCEPT ![k].domain = item.name,
                                      ![k].volume = item.projectedVolume,
                                      ![k].ESPs = PyList(entries[j])],
             refs |-> Append(st.refs, k)],
            k, item, entries, j + 1)

\* "for d, proj_vol in domain_name_vol.items()"
RECURSIVE items_loop(_, _, _, _, _)
items_loop(st, k, items, vol_esps, n) ==
    IF n > Len(items) THEN st
    ELSE items_loop(entries_loop(st, k, items[n], vol_esps[items[n].name], 1),
                    k, items, vol_esps, n + 1)

\* the body of "for brand in brand_results", for the k-th brand
brand_step(st, k, website, company_name, brand) ==
    LET made == [st EXCEPT !.heap = Append(@, CompanyDomainResult(website, company_name, brand.name))]
    IN  IF Len(brand.domains) > 0
        THEN items_loop(made, k, domain_name_vol(brand.domains), brand.vol_esps, 1)
        ELSE made

RECURSIVE brands_loop(_, _, _, _, _)
brands_loop(st, website, company_name, brands, k) ==
    IF k > Len(brands) THEN st
    ELSE brands_loop(brand_step(st, k, website, company_name, brands[k]),
                     website, company_name, brands, k + 1)

\* A returned value that is None or a list.
ReturnNone == [none |-> TRUE, list |-> <<>>]
ReturnList(l) == [none |-> FALSE, list |-> l]

\* The value returned: None, or the list, each reference shown as the object
\* it points to when the function returns. brand_results_inline tells whether
\* the caller passed a brand list; otherwise the brands are fetched and an
\* empty answer returns None.
make_company_results(website, company_name, brand_results_inline, brands) ==
    IF ~brand_results_inline /\ Len(brands) < 1
    THEN ReturnNone
    ELSE LET st == brands_loop([heap |-> <<>>, refs |-> <<>>], website, company_name, brands, 1)
         IN  ReturnList([i \in 1..Len(st.refs) |-> st.heap[st.refs[i]]])

(***************************************************************************)
(* ResultWriter.write                                                      *)
(***************************************************************************)
VerboseFields == <<"website", "company_name", "brand_name", "domain", "volume", "ESPs">>
SummaryFields == <<"website", "company_name", "brand_name", "volume", "ESPs", "domain_count">>

DictWriter(fieldnames) == [fieldnames |-> fieldnames]
HeaderLine(w) == [kind |-> "header", fieldnames |-> w.fieldnames]
RowLine(d) == [kind |-> "row", data |-> d]

\* deepcopy(r); del grouped_r.domain; grouped_r.domain_count = 1
new_group(r) ==
    [website |-> r.website, company_name |-> r.company_name, brand_name |-> r.brand_name,
     volume |-> r.volume, ESPs |-> r.ESPs, domain_count |-> 1]

\* the condition under which r is merged into the accumulator (lines 296-297)
same_group_ignoring_brand(r, grouped_r) ==
    /\ r.website = grouped_r.website
    /\ r.company_name = grouped_r.company_name
    /\ PyEq(r.ESPs, grouped_r.ESPs)

same_group_ignoring_ESPs(r, grouped_r) ==
    /\ r.website = grouped_r.website
    /\ r.company_name = grouped_r.company_name
    /\ r.brand_name = grouped_r.brand_name

same_group(r, grouped_r) ==
    /\ r.website = grouped_r.website
    /\ r.company_name = grouped_r.company_name
    /\ r.brand_name = grouped_r.brand_name
    /\ PyEq(r.ESPs, grouped_r.ESPs)

\* summary_step with grouped_r = r in place of deepcopy(r): the accumulator is
\* the first result of its group, and merging adds into that result
summary_step_without_deepcopy(st, r) ==
    IF st.grouped_r = NoneObj
    THEN [st EXCEPT !.grouped_r = new_group(r)]
    ELSE IF same_group(r, st.grouped_r)
    THEN LET first == CHOOSE i \in 1..Len(st.res) : same_group(st.res[i], st.grouped_r)
         IN  [st EXCEPT !.grouped_r.volume = @ + r.volume,
                        !.grouped_r.domain_count = @ + 1,
                        !.res[first].volume = @ + r.volume]
    ELSE LET opened == st.fh = NoneObj
             w == IF opened THEN DictWriter(SummaryFields) ELSE st.fh
             hdr == IF opened THEN <<HeaderLine(w)>> ELSE <<>>
         IN  [grouped_r |-> new_group(r),
              fh |-> w,
              out |-> st.out \o hdr \o <<RowLine(to_dict(st.grouped_r))>>,
              res |-> st.res]

\* One iteration of "for r in result" in summary mode. st holds the
\* accumulator grouped_r, the writer's fh, the lines written so far and res,
\* the caller's list: grouped_r is a deepcopy, so the loop only reads res.
summary_step(st, r) ==
    IF st.grouped_r = NoneObj
    THEN [st EXCEPT !.grouped_r = new_group(r)]
    ELSE IF same_group(r, st.grouped_r)
    THEN [st EXCEPT !.grouped_r.volume = @ + r.volume,
                    !.grouped_r.domain_count = @ + 1]
    ELSE LET opened == st.fh = NoneObj
             w == IF opened THEN DictWriter(SummaryFields) ELSE st.fh
             hdr == IF opened THEN <<HeaderLine(w)>> ELSE <<>>
         IN  [grouped_r |-> new_group(r),
              fh |-> w,
              out |-> st.out \o hdr \o <<RowLine(to_dict(st.grouped_r))>>,
              res |-> st.res]

RECURSIVE summary_loop(_, _, _)
\* "for r in result" from the i-th record on; next is the state after one
\* iteration, computed once
summary_loop(st, res, i) ==
    IF i > Len(res) THEN st
    ELSE CHOOSE final \in {summary_loop(next, res, i + 1) :
                                next \in {summary_step(st, res[i])}} : TRUE

summary_final_without_flush(st) == st

\* "if grouped_r and self.fh": the final group is written only through an
\* already opened writer.
summary_final(st) ==
    IF st.grouped_r # NoneObj /\ st.fh # NoneObj
    THEN [st EXCEPT !.out = @ \o <<RowLine(to_dict(st.grouped_r))>>]
    ELSE st

write_summary(self_fh, res) ==
    summary_final(summary_loop([grouped_r |-> NoneObj, fh |-> self_fh, out |-> <<>>, res |-> res],
                               res, 1))

\* Verbose mode; result[0] of an empty list raises IndexError.
write_verbose(self_fh, res) ==
    LET opened == self_fh = NoneObj
        w == IF opened THEN DictWriter(VerboseFields) ELSE self_fh
        hdr == IF opened THEN <<HeaderLine(w)>> ELSE <<>>
    IN  [grouped_r |-> NoneObj,
         fh |-> w,
         out |-> hdr \o [i \in 1..Len(res) |-> RowLine(to_dict(res[i]))],
         res |-> res]

write_raises(self_verbose, self_fh, res) ==
    self_verbose /\ self_fh = NoneObj /\ Len(res) = 0

write(self_verbose, self_fh, res) ==
    IF self_verbose THEN write_verbose(self_fh, res) ELSE write_summary(self_fh, res)

\* the header rows among the lines of the output
HeaderRows(lines) == SelectSeq(lines, LAMBDA l : l.kind = "header")

\* the data rows among the lines of the output
DataRows(lines) == SelectSeq(lines, LAMBDA l : l.kind = "row")

(***************************************************************************)
(* The values the model draws its inputs from.                             *)
(***************************************************************************)
EspLists == {PyList(<<"X", "Y">>), PyList(<<"Y", "X">>), PyList(<<"X">>)}

BaseRecord ==
    [website |-> "w1", company_name |-> "c1", brand_name |-> "b1",
     domain |-> "d1", volume |-> 1000, ESPs |-> PyList(<<"X", "Y">>)]

AllRecords ==
    [website : {"w1", "w2"}, company_name : {"c1", "c2"}, brand_name : {"b1", "b2"},
     domain : {"d1", "d2"}, volume : {1000, 500}, ESPs : EspLists]

\* the number of attributes in which two results differ
Distance(r, s) ==
    Cardinality({f \in DOMAIN r : r[f] # s[f]})

\* the results handed to the writer: BaseRecord and every result that differs
\* from it in one attribute
Records == {r \in AllRecords : Distance(r, BaseRecord) <= 1}

(***************************************************************************)
(* SpecWriter: a ResultWriter and a caller that hands it lists of results. *)
(* The caller assembles a list one result at a time, calls write with it   *)
(* and starts over with the same writer.                                   *)
(***************************************************************************)
InitWriter ==
    /\ verbose \in BOOLEAN
    /\ fh = NoneObj
    /\ result = <<>>
    /\ out = <<>>
    /\ headers = 0
    /\ pc = "caller"
    /\ crashed = FALSE
    /\ brands_in = <<>>
    /\ inline = TRUE
    /\ result_none = FALSE
    /\ RunIdle

\* the caller puts one more result on the list it is going to write
CallerAppend ==
    /\ pc = "caller"
    /\ Len(result) < MaxLen
    /\ \E r \in Records : result' = Append(result, r)
    /\ UNCHANGED <<verbose, fh, out, headers, pc, crashed, brands_in, inline, result_none>>
    /\ UNCHANGED runvars

\* fh.write(result)
WriterWrite ==
    /\ pc = "caller"
    /\ ~write_raises(verbose, fh, result)
    /\ LET w == write(verbose, fh, result)
       IN  /\ fh' = w.fh /\ out' = w.out /\ headers' = headers + Len(HeaderRows(w.out))
           /\ result' = w.res
    /\ pc' = "written"
    /\ UNCHANGED <<verbose, crashed, brands_in, inline, result_none>>
    /\ UNCHANGED runvars

\* fh.write([]) on a fresh verbose writer: IndexError
WriterRaise ==
    /\ pc = "caller"
    /\ write_raises(verbose, fh, result)
    /\ pc' = "raised"
    /\ crashed' = TRUE
    /\ UNCHANGED <<verbose, fh, result, out, headers, brands_in, inline, result_none>>
    /\ UNCHANGED runvars

\* a row of the output taken as a result again: a CompanyDomainResult of the
\* row's website, company_name and brand_name, with the row's volume and its
\* ESPs (the flattened string)
result_of_row(d) ==
    [CompanyDomainResult(d.website, d.company_name, d.brand_name)
        EXCEPT !.volume = d.volume, !.ESPs = PyStr(d.ESPs)]

\* all results of the list that write would merge are adjacent
PreGrouped(res) ==
    \A i, j \in 1..Len(res) :
        (i < j /\ same_group(res[i], res[j])) => \A k \in i..j : same_group(res[i], res[k])

\* the caller hands the rows that the summary has just written for a
\* pre-grouped list to write again
CallerReaggregate ==
    /\ pc = "written"
    /\ ~verbose
    /\ PreGrouped(result)
    /\ LET rows == DataRows(out)
           again == [i \in 1..Len(rows) |-> result_of_row(rows[i].data)]
           w == write(verbose, fh, again)
       IN  /\ result' = w.res
           /\ fh' = w.fh
           /\ out' = out \o w.out
           /\ headers' = headers + Len(HeaderRows(w.out))
    /\ pc' = "reaggregated"
    /\ UNCHANGED <<verbose, crashed, brands_in, inline, result_none>>
    /\ UNCHANGED runvars

\* the caller starts the next list; the writer is kept
CallerNext ==
    /\ pc \in {"written", "reaggregated"}
    /\ result' = <<>>
    /\ out' = <<>>
    /\ headers' = headers
    /\ pc' = "caller"
    /\ UNCHANGED <<verbose, fh, crashed, brands_in, inline, result_none>>
    /\ UNCHANGED runvars

NextWriter == CallerAppend \/ WriterWrite \/ WriterRaise \/ CallerReaggregate \/ CallerNext

SpecWriter == InitWriter /\ [][NextWriter]_vars

(***************************************************************************)
(* SpecResolve: the main loop over the input tokens in website mode, when  *)
(* every remote call answers. The token resolves to one company without    *)
(* child companies; the remote service's data on its brands is drawn brand *)
(* by brand, then make_company_results builds the list and main writes it  *)
(* or skips the token.                                                     *)
(***************************************************************************)
Token == "example.com"
CompanyName == "Acme"
BrandNames == {"b1", "b2"}
DomainNames == {"d1", "d2"}
Volumes == {1000, 500}
EspNameLists == {<<"X", "Y">>, <<"Y", "X">>}

DomainVolumes == [name : DomainNames, projectedVolume : Volumes]

DomainLists == UNION {[1..n -> DomainVolumes] : n \in 0..MaxDomains}

EntryLists == UNION {[1..n -> EspNameLists] : n \in 1..MaxEntries}

NamesOf(domains) == {domains[i].name : i \in 1..Len(domains)}

\* what the remote service may hold on one brand
BrandResponses ==
    UNION {[name : BrandNames, domains : {ds}, vol_esps : [NamesOf(ds) -> EntryLists]] :
              ds \in DomainLists}

InitResolve ==
    /\ verbose \in BOOLEAN
    /\ fh = NoneObj
    /\ result = <<>>
    /\ out = <<>>
    /\ headers = 0
    /\ pc = "token"
    /\ crashed = FALSE
    /\ brands_in = <<>>
    /\ inline \in BOOLEAN
    /\ result_none = FALSE
    /\ RunIdle

\* the remote service holds one more brand for the company
RemoteBrand ==
    /\ pc = "token"
    /\ Len(brands_in) < MaxBrands
    /\ \E b \in BrandResponses : brands_in' = Append(brands_in, b)
    /\ UNCHANGED <<verbose, fh, result, out, headers, pc, crashed, inline, result_none>>
    /\ UNCHANGED runvars

\* result = get_company_info_from_website(ct, company_site, api_calls)
Resolve ==
    /\ pc = "token"
    /\ LET r == make_company_results(Token, CompanyName, inline, brands_in)
       IN  result' = r.list /\ result_none' = r.none
    /\ pc' = "resolved"
    /\ UNCHANGED <<verbose, fh, out, headers, crashed, brands_in, inline>>
    /\ UNCHANGED runvars

\* if result: fh.write(result)
MainWrite ==
    /\ pc = "resolved"
    /\ ~result_none /\ Len(result) > 0
    /\ LET w == write(verbose, fh, result)
       IN  /\ fh' = w.fh /\ out' = w.out /\ headers' = headers + Len(HeaderRows(w.out))
           /\ result' = w.res
    /\ pc' = "written"
    /\ UNCHANGED <<verbose, crashed, brands_in, inline, result_none>>
    /\ UNCHANGED runvars

\* else: eprint('! entry {} skipped - no results')
MainSkip ==
    /\ pc = "resolved"
    /\ result_none \/ Len(result) = 0
    /\ pc' = "skipped"
    /\ UNCHANGED <<verbose, fh, result, out, headers, crashed, brands_in, inline, result_none>>
    /\ UNCHANGED runvars

\* the next token of the input, with the same writer
MainNextToken ==
    /\ pc \in {"written", "skipped"}
    /\ result' = <<>>
    /\ result_none' = FALSE
    /\ out' = <<>>
    /\ headers' = headers
    /\ brands_in' = <<>>
    /\ inline' \in BOOLEAN
    /\ pc' = "token"
    /\ UNCHANGED <<verbose, fh, crashed>>
    /\ UNCHANGED runvars

NextResolve == RemoteBrand \/ Resolve \/ MainWrite \/ MainSkip \/ MainNextToken

SpecResolve == InitResolve /\ [][NextResolve]_vars

(***************************************************************************)
(* The remote service, its errors, and the classification of an error.     *)
(*                                                                         *)
(* An error (CompetitiveTrackerAPIException) has a status and a list of    *)
(* messages. A message is represented by what the code looks for in it:    *)
(* whether it contains 'Account Over Rate Limit', whether it contains      *)
(* 'Account Over Queries Per Second Limit', and what json.loads makes of   *)
(* it ("invalid": not JSON, "missing": an object with code 404 and type    *)
(* MISSING, "other": another object).                                      *)
(***************************************************************************)
retry_wait_secs == 2

MsgQps == [over_rate_limit |-> FALSE, over_qps_limit |-> TRUE, json |-> "invalid"]
MsgRate == [over_rate_limit |-> TRUE, over_qps_limit |-> FALSE, json |-> "invalid"]
MsgMissing == [over_rate_limit |-> FALSE, over_qps_limit |-> FALSE, json |-> "missing"]
MsgText == [over_rate_limit |-> FALSE, over_qps_limit |-> FALSE, json |-> "invalid"]
MsgJson == [over_rate_limit |-> FALSE, over_qps_limit |-> FALSE, json |-> "other"]

Messages == {MsgQps, MsgRate, MsgMissing, MsgText, MsgJson}
\* the two statuses of rate limiting, and 404 for every other status
Statuses == {429, 503, 404}
Errors == [status : Statuses, errors : {<<>>} \cup {<<m>> : m \in Messages}]

\* rate_limiting_in(err): whether it raises (err.errors[0] of an empty list),
\* the value it returns, the seconds it sleeps before returning and the line
\* it prints with eprint ("daily_limit": 'Hit account daily limit! ...',
\* "pausing": '.. pausing for per-second query rate-limiting ..')
rate_limiting_in_429_only(err) ==
    IF err.status = 429
    THEN IF Len(err.errors) = 0
         THEN [raises |-> TRUE, ret |-> FALSE, sleep |-> 0, eprint |-> <<>>]
         ELSE LET msg == err.errors[1]
              IN  IF msg.over_rate_limit
                  THEN [raises |-> FALSE, ret |-> FALSE, sleep |-> 0, eprint |-> <<"daily_limit">>]
                  ELSE IF msg.over_qps_limit
                  THEN [raises |-> FALSE, ret |-> TRUE, sleep |-> retry_wait_secs, eprint |-> <<"pausing">>]
                  ELSE [raises |-> FALSE, ret |-> FALSE, sleep |-> 0, eprint |-> <<>>]
    ELSE [raises |-> FALSE, ret |-> FALSE, sleep |-> 0, eprint |-> <<>>]

rate_limiting_in(err) ==
    IF err.status = 503 \/ err.status = 429
    THEN IF Len(err.errors) = 0
         THEN [raises |-> TRUE, ret |-> FALSE, sleep |-> 0, eprint |-> <<>>]
         ELSE LET msg == err.errors[1]
              IN  IF msg.over_rate_limit
                  THEN [raises |-> FALSE, ret |-> FALSE, sleep |-> 0, eprint |-> <<"daily_limit">>]
                  ELSE IF msg.over_qps_limit
                  THEN [raises |-> FALSE, ret |-> TRUE, sleep |-> retry_wait_secs, eprint |-> <<"pausing">>]
                  ELSE [raises |-> FALSE, ret |-> FALSE, sleep |-> 0, eprint |-> <<>>]
    ELSE [raises |-> FALSE, ret |-> FALSE, sleep |-> 0, eprint |-> <<>>]

\* register_call(d, name)
register_call(d, name) ==
    IF name \in DOMAIN d THEN [d EXCEPT ![name] = @ + 1] ELSE d @@ (name :> 1)

\* the remote operations, and the name each is counted under
Ops == {"get_company_from_domain", "search_companies", "get_company_from_id",
        "get_all_company_brands", "get_top_domains", "get_brand_volume_and_esps"}

call_name(op) ==
    CASE op = "get_company_from_domain" -> "ct.core.graph.domain"
      [] op = "search_companies" -> "ct.core.discover.company"
      [] op = "get_company_from_id" -> "ct.core.graph.company"
      [] op = "get_all_company_brands" -> "ct.core.companies.get_all_company_brands"
      [] op = "get_top_domains" -> "ct.intelligence.brand.get_top_domains"
      [] op = "get_brand_volume_and_esps" -> "ct.domain_info.get_brand_volume_and_esps"

\* get_vol_avg_and_esps counts the call before making it, the other loops after
registers_before_call(op) == op = "get_brand_volume_and_esps"

(***************************************************************************)
(* org_domain, on the tokens of the model.                                 *)
(***************************************************************************)
\* the tokens of the input: a URL, and the empty token of a line such as "a,,b"
Tokens == {"https://www.example.com/path", ""}

\* urlparse(url), its scheme and netloc
urlparse(url) ==
    CASE url = "https://www.example.com/path" -> [scheme |-> "https", netloc |-> "www.example.com"]
      [] url = "example.com" -> [scheme |-> "", netloc |-> ""]
      [] url = "http://example.com" -> [scheme |-> "http", netloc |-> "example.com"]
      [] url = "" -> [scheme |-> "", netloc |-> ""]
      [] url = "http://" -> [scheme |-> "http", netloc |-> ""]

\* domain.removeprefix('www.'), on the netlocs above
removeprefix_www(domain) ==
    IF domain = "www.example.com" THEN "example.com" ELSE domain

org_domain(url) ==
    LET parts == urlparse(url)
    IN  IF parts.scheme # "" /\ parts.netloc # ""
        THEN removeprefix_www(parts.netloc)
        ELSE LET parts2 == urlparse("http://" \o url)
             IN  IF parts2.scheme # "" /\ parts2.netloc # ""
                 THEN removeprefix_www(parts2.netloc)
                 ELSE "None"

(***************************************************************************)
(* What the remote service holds: company 1, found for every token; the    *)
(* child companies each company lists (tree); every company has the first  *)
(* nbrands brands of RunBrands, carried by the company entity (inline) or  *)
(* not.                                                                    *)
(***************************************************************************)
RunBrands ==
    <<[name |-> "b1",
       domains |-> <<[name |-> "d1", projectedVolume |-> 1000],
                     [name |-> "d2", projectedVolume |-> 500]>>,
       vol_esps |-> ("d1" :> <<<<"X">>>>) @@ ("d2" :> <<<<"X">>>>)],
      [name |-> "b2", domains |-> <<>>, vol_esps |-> <<>>]>>

CompanyNames == <<"c1", "c2", "c3", "c4">>
CompanyUrls == <<"c1.example", "c2.example", "c3.example", "c4.example">>
CompanyIds == 1..Len(CompanyNames)

\* childCompanies of every company: none; company 1 lists company 2; company
\* 1 lists 2 and 3, which both list 4; company 1 lists itself; companies 1
\* and 2 list each other
NoChildren == [id \in CompanyIds |-> <<>>]
Chain == [NoChildren EXCEPT ![1] = <<2>>]
Diamond == [NoChildren EXCEPT ![1] = <<2, 3>>, ![2] = <<4>>, ![3] = <<4>>]
SelfCycle == [NoChildren EXCEPT ![1] = <<1>>]
TwoCycle == [NoChildren EXCEPT ![1] = <<2>>, ![2] = <<1>>]

RunTrees == {NoChildren, Chain}
ExpandTrees == {NoChildren, Chain, Diamond, SelfCycle, TwoCycle}

\* the remote calls made inside the recursion of company_info
NestedOps == {"get_company_from_id", "get_all_company_brands", "get_top_domains",
              "get_brand_volume_and_esps"}

\* the Python frames a call of the client library takes, its own and those of
\* the calls it makes, per remote call. The client is not part of the
\* repository: a call takes one frame at least.
ClientFrames == [NestedOps -> 1..MaxClientFrames]
ShallowClient == [op \in NestedOps |-> 1]

\* empty: get_company_from_id answers with an empty entity; frames: the
\* frames the client's calls take. The hierarchies of RunTrees end far below
\* the recursion limit whatever the client takes, so one client is drawn there.
EmptyWorlds == [tree : RunTrees, inline : BOOLEAN, nbrands : 0..Len(RunBrands),
                found : {TRUE}, empty : {TRUE}, frames : {ShallowClient}]

Worlds == [tree : RunTrees, inline : BOOLEAN, nbrands : 0..Len(RunBrands), found : BOOLEAN,
           empty : {FALSE}, frames : {ShallowClient}] \cup EmptyWorlds
ExpandWorlds == [tree : ExpandTrees, inline : BOOLEAN, nbrands : 0..Len(RunBrands),
                 found : {TRUE}, empty : {FALSE}, frames : ClientFrames] \cup EmptyWorlds

\* the company entity with the given id
Entity(w, id) ==
    [name |-> CompanyNames[id], url |-> CompanyUrls[id], id |-> id,
     brands_inline |-> w.inline,
     childCompanies |-> w.tree[id]]

\* the brands of a company
BrandsOf(w, id) == SubSeq(RunBrands, 1, w.nbrands)

(***************************************************************************)
(* SpecRun: the main loop, step by step. One input token after the other   *)
(* is resolved through the retry loops around the remote calls; the remote *)
(* service answers a call or raises one of Errors.                         *)
(*                                                                         *)
(* pc is "main"     at the head of the loop over the input tokens,         *)
(*       "try"      in a retry loop, about to make the remote call,        *)
(*       "except"   in a retry loop, with the error loop.err caught,       *)
(*       "brands"   at the head of "for brand in brand_results",           *)
(*       "children" at the head of "for child_co in ...childCompanies",    *)
(*       "returned" when a resolver function has returned ret,             *)
(*       "crashed"  after an uncaught exception.                           *)
(***************************************************************************)
InputTypes == {"company_name", "website", "sending_domain"}

Frame(fn, website, id) ==
    [fn |-> fn, website |-> website, id |-> id, children |-> <<>>, ci |-> 1,
     res |-> ReturnList(<<>>)]

\* attempts counts the calls made in this loop, naps the sleeps
StartLoop(op, arg) == [op |-> op, arg |-> arg, err |-> NoneObj, attempts |-> 0, naps |-> 0]

Top == stack[Len(stack)]
SetTop(f) == [stack EXCEPT ![Len(stack)] = f]
Pop == SubSeq(stack, 1, Len(stack) - 1)

\* the Python frames of the resolver above the main loop: one per call on the
\* stack, and in name mode, once the search has answered, the one of
\* get_company_info_from_name, which stays active while the company_info it
\* called runs (return company_info(...), line 136)
Depth ==
    Len(stack) + (IF input_type = "company_name" /\ Len(stack) > 0
                     /\ stack[1].fn = "company_info" THEN 1 ELSE 0)

\* the frames between the resolver call and a remote call it leads to:
\* company_info makes the fetch itself, make_company_results lists the brands
\* and the top domains one frame above it, get_vol_avg_and_esps fetches the
\* volumes two frames above it
Nesting(op) ==
    CASE op = "get_company_from_id" -> 0
      [] op \in {"get_all_company_brands", "get_top_domains"} -> 1
      [] op = "get_brand_volume_and_esps" -> 2

\* whether n more frames above the innermost resolver call fit under the limit
Fits(n) == Depth + n <= RecursionLimit

\* whether the remote call of the loop fits under the recursion limit
RemoteCallFits == Fits(Nesting(loop.op) + world.frames[loop.op])

writerUnchanged == UNCHANGED <<verbose, fh, result, out, headers, result_none>>
idleUnchanged == UNCHANGED <<brands_in, inline, input_type, world>>

InitRun ==
    /\ verbose \in BOOLEAN
    /\ fh = NoneObj
    /\ result = <<>>
    /\ out = <<>>
    /\ headers = 0
    /\ pc = "main"
    /\ crashed = FALSE
    /\ brands_in = <<>>
    /\ inline = TRUE
    /\ result_none = FALSE
    /\ input_type \in InputTypes
    /\ ntokens = 0
    /\ world \in Worlds
    /\ input_type # "company_name" => world.found
    /\ stack = <<>>
    /\ mcr = NoneObj
    /\ loop = NoneObj
    /\ ret = NoneObj
    /\ api_calls = <<>>
    /\ slept = 0
    /\ errs = 0
    /\ succeeded = <<>>
    /\ stderr = <<>>

\* for company_site in line: api_calls = {'_company_site': company_site} and the
\* call of the resolver of the input type, up to its first remote call
MainToken ==
    /\ pc = "main"
    /\ ntokens < MaxTokens
    /\ \E tok \in Tokens :
        \* the empty token is drawn in website mode, where tokens are normalised
        /\ tok = "" => input_type = "website"
        /\ api_calls' = ("_company_site" :> tok)
        /\ stack' = <<Frame(input_type, tok, 0)>>
        /\ loop' = CASE input_type = "company_name" -> StartLoop("search_companies", tok)
                     [] input_type = "website" -> StartLoop("get_company_from_domain", org_domain(tok))
                     [] input_type = "sending_domain" -> StartLoop("get_company_from_domain", tok)
    /\ ntokens' = ntokens + 1
    /\ succeeded' = <<>>
    /\ stderr' = <<>>
    /\ result' = <<>>
    /\ result_none' = FALSE
    /\ out' = <<>>
    /\ headers' = headers
    /\ ret' = NoneObj
    /\ mcr' = NoneObj
    /\ pc' = "try"
    /\ UNCHANGED <<verbose, fh, crashed, slept, errs>>
    /\ idleUnchanged

\* the remote call raises CompetitiveTrackerAPIException
TryRaise ==
    /\ pc = "try"
    /\ errs < MaxErrors
    /\ \E e \in Errors : loop' = [loop EXCEPT !.err = e, !.attempts = @ + 1]
    /\ errs' = errs + 1
    /\ api_calls' = IF registers_before_call(loop.op)
                    THEN register_call(api_calls, call_name(loop.op))
                    ELSE api_calls
    /\ pc' = "except"
    /\ UNCHANGED <<stderr, crashed, ntokens, stack, mcr, ret, slept, succeeded>>
    /\ writerUnchanged /\ idleUnchanged

\* except: rate_limiting_in(err) raises IndexError
HandlerRaises ==
    /\ pc = "except"
    /\ rate_limiting_in(loop.err).raises
    /\ crashed' = TRUE
    /\ pc' = "crashed"
    /\ UNCHANGED <<stderr, ntokens, stack, mcr, loop, ret, api_calls, slept, errs, succeeded>>
    /\ writerUnchanged /\ idleUnchanged

\* except: if rate_limiting_in(err): continue
HandlerContinue ==
    /\ pc = "except"
    /\ LET rl == rate_limiting_in(loop.err)
       IN  /\ ~rl.raises
           /\ rl.ret
           /\ slept' = slept + rl.sleep
           /\ stderr' = stderr \o rl.eprint
           /\ loop' = [loop EXCEPT !.naps = IF rl.sleep > 0 THEN @ + 1 ELSE @]
    /\ pc' = "try"
    /\ UNCHANGED <<crashed, ntokens, stack, mcr, ret, api_calls, errs, succeeded>>
    /\ writerUnchanged /\ idleUnchanged

\* whether the loop is the one of get_company_info_from_sending_domain
InSendingDomainLoop ==
    loop.op = "get_company_from_domain" /\ Top.fn = "sending_domain"

\* except: else: eprint(err); return None, in the loops of the resolver
\* functions (in get_company_info_from_sending_domain: when err.errors is
\* empty or its first message is JSON that does not say MISSING)
HandlerGiveUp ==
    /\ pc = "except"
    /\ loop.op \in {"get_company_from_domain", "search_companies", "get_company_from_id"}
    /\ InSendingDomainLoop =>
            (IF Len(loop.err.errors) = 0 THEN TRUE ELSE loop.err.errors[1].json = "other")
    /\ LET rl == rate_limiting_in(loop.err)
       IN  /\ ~rl.raises
           /\ ~rl.ret
           /\ slept' = slept + rl.sleep
           /\ stderr' = stderr \o rl.eprint \o <<"err">>
    /\ ret' = ReturnNone
    /\ stack' = Pop
    /\ loop' = NoneObj
    /\ pc' = "returned"
    /\ UNCHANGED <<crashed, ntokens, mcr, api_calls, errs, succeeded>>
    /\ writerUnchanged /\ idleUnchanged

SendingDomainMissing_logged ==
    /\ pc = "except"
    /\ InSendingDomainLoop
    /\ Len(loop.err.errors) > 0
    /\ loop.err.errors[1].json = "missing"
    /\ LET rl == rate_limiting_in(loop.err)
       IN  /\ ~rl.raises
           /\ ~rl.ret
           /\ slept' = slept + rl.sleep
           /\ stderr' = stderr \o rl.eprint \o <<"err">>
    /\ ret' = ReturnNone
    /\ stack' = Pop
    /\ loop' = NoneObj
    /\ pc' = "returned"
    /\ UNCHANGED <<crashed, ntokens, mcr, api_calls, errs, succeeded>>
    /\ writerUnchanged /\ idleUnchanged

\* get_company_info_from_sending_domain: the error says code 404, type
\* MISSING: return None without printing the error
SendingDomainMissing ==
    /\ pc = "except"
    /\ InSendingDomainLoop
    /\ Len(loop.err.errors) > 0
    /\ loop.err.errors[1].json = "missing"
    /\ LET rl == rate_limiting_in(loop.err)
       IN  /\ ~rl.raises
           /\ ~rl.ret
           /\ slept' = slept + rl.sleep
           /\ stderr' = stderr \o rl.eprint
    /\ ret' = ReturnNone
    /\ stack' = Pop
    /\ loop' = NoneObj
    /\ pc' = "returned"
    /\ UNCHANGED <<crashed, ntokens, mcr, api_calls, errs, succeeded>>
    /\ writerUnchanged /\ idleUnchanged

\* get_company_info_from_sending_domain: json.loads(err.errors[0]) raises on
\* a message that is not JSON
SendingDomainJsonRaises ==
    /\ pc = "except"
    /\ InSendingDomainLoop
    /\ Len(loop.err.errors) > 0
    /\ loop.err.errors[1].json = "invalid"
    /\ LET rl == rate_limiting_in(loop.err)
       IN  /\ ~rl.raises
           /\ ~rl.ret
           /\ slept' = slept + rl.sleep
           /\ stderr' = stderr \o rl.eprint
    /\ crashed' = TRUE
    /\ pc' = "crashed"
    /\ UNCHANGED <<ntokens, stack, mcr, loop, ret, api_calls, errs, succeeded>>
    /\ writerUnchanged /\ idleUnchanged

\* make_company_results: except: else: eprint(err); return None. The caller
\* keeps None as its res and goes on to its child companies.
McrGiveUp ==
    /\ pc = "except"
    /\ loop.op \in {"get_all_company_brands", "get_top_domains"}
    /\ LET rl == rate_limiting_in(loop.err)
       IN  /\ ~rl.raises
           /\ ~rl.ret
           /\ slept' = slept + rl.sleep
           /\ stderr' = stderr \o rl.eprint \o <<"err">>
    /\ stack' = SetTop([Top EXCEPT !.res = ReturnNone])
    /\ mcr' = NoneObj
    /\ loop' = NoneObj
    /\ pc' = "children"
    /\ UNCHANGED <<crashed, ntokens, ret, api_calls, errs, succeeded>>
    /\ writerUnchanged /\ idleUnchanged

\* get_vol_avg_and_esps: except: else: eprint(err); return None; then
\* make_company_results subscripts the None it got: TypeError
VolGiveUp ==
    /\ pc = "except"
    /\ loop.op = "get_brand_volume_and_esps"
    /\ LET rl == rate_limiting_in(loop.err)
       IN  /\ ~rl.raises
           /\ ~rl.ret
           /\ slept' = slept + rl.sleep
           /\ stderr' = stderr \o rl.eprint \o <<"err">>
    /\ crashed' = TRUE
    /\ pc' = "crashed"
    /\ UNCHANGED <<ntokens, stack, mcr, loop, ret, api_calls, errs, succeeded>>
    /\ writerUnchanged /\ idleUnchanged

\* what a call that returns a response does to the counters
Counted ==
    /\ api_calls' = register_call(api_calls, call_name(loop.op))
    /\ succeeded' = register_call(succeeded, call_name(loop.op))

\* the call of make_company_results(ct, website, co name, co id, co brands)
\* up to its first remote call or the head of its loop over the brands
CallMcr(co, website) ==
    /\ mcr' = [website |-> website, company_name |-> co.name, company_id |-> co.id,
               brands |-> IF co.brands_inline THEN BrandsOf(world, co.id) ELSE <<>>,
               k |-> 1, domains |-> <<>>, st |-> [heap |-> <<>>, refs |-> <<>>]]
    /\ IF co.brands_inline
       THEN loop' = NoneObj /\ pc' = "brands"
       ELSE loop' = StartLoop("get_all_company_brands", co.id) /\ pc' = "try"

\* get_company_from_domain answers (website and sending-domain mode)
DomainSuccess ==
    /\ pc = "try"
    /\ loop.op = "get_company_from_domain"
    /\ Counted
    /\ LET co == Entity(world, 1)
       IN  /\ stack' = SetTop([Top EXCEPT !.id = co.id, !.children = co.childCompanies])
           /\ CallMcr(co, Top.website)
    /\ UNCHANGED <<stderr, crashed, ntokens, ret, slept, errs>>
    /\ writerUnchanged /\ idleUnchanged

\* search_companies answers: no company, return None; or company_info(first id)
SearchSuccess ==
    /\ pc = "try"
    /\ loop.op = "search_companies"
    /\ Counted
    /\ IF world.found
       THEN /\ stack' = <<Frame("company_info", "None", 1)>>
            /\ loop' = StartLoop("get_company_from_id", 1)
            /\ ret' = ret
            /\ pc' = "try"
       ELSE /\ stack' = Pop
            /\ loop' = NoneObj
            /\ ret' = ReturnNone
            /\ pc' = "returned"
    /\ UNCHANGED <<stderr, crashed, ntokens, mcr, slept, errs>>
    /\ writerUnchanged /\ idleUnchanged

\* get_company_from_id answers with an empty entity: if not co: return None
CompanyEmpty ==
    /\ pc = "try"
    /\ loop.op = "get_company_from_id"
    /\ RemoteCallFits
    /\ world.empty
    /\ Counted
    /\ stack' = Pop
    /\ loop' = NoneObj
    /\ ret' = ReturnNone
    /\ pc' = "returned"
    /\ UNCHANGED <<stderr, crashed, ntokens, mcr, slept, errs>>
    /\ writerUnchanged /\ idleUnchanged

\* get_company_from_id answers (company_info)
CompanySuccess ==
    /\ pc = "try"
    /\ loop.op = "get_company_from_id"
    /\ RemoteCallFits
    /\ ~world.empty
    /\ Counted
    /\ LET co == Entity(world, loop.arg)
       IN  /\ stack' = SetTop([Top EXCEPT !.website = co.url, !.children = co.childCompanies])
           /\ CallMcr(co, co.url)
    /\ UNCHANGED <<stderr, crashed, ntokens, ret, slept, errs>>
    /\ writerUnchanged /\ idleUnchanged

\* get_all_company_brands answers; an empty list returns None
BrandsSuccess ==
    /\ pc = "try"
    /\ loop.op = "get_all_company_brands"
    /\ RemoteCallFits
    /\ Counted
    /\ LET brand_results == BrandsOf(world, loop.arg)
       IN  IF Len(brand_results) < 1
           THEN /\ stack' = SetTop([Top EXCEPT !.res = ReturnNone])
                /\ mcr' = NoneObj
                /\ pc' = "children"
           ELSE /\ stack' = stack
                /\ mcr' = [mcr EXCEPT !.brands = brand_results]
                /\ pc' = "brands"
    /\ loop' = NoneObj
    /\ UNCHANGED <<stderr, crashed, ntokens, ret, slept, errs>>
    /\ writerUnchanged /\ idleUnchanged

\* for brand in brand_results: the next brand, up to its get_top_domains call
BrandNext ==
    /\ pc = "brands"
    /\ mcr.k <= Len(mcr.brands)
    /\ loop' = StartLoop("get_top_domains", mcr.k)
    /\ pc' = "try"
    /\ UNCHANGED <<stderr, crashed, ntokens, stack, mcr, ret, api_calls, slept, errs, succeeded>>
    /\ writerUnchanged /\ idleUnchanged

\* get_top_domains answers: res = CompanyDomainResult(...); without domains
\* the brand is done, else get_vol_avg_and_esps is called
TopDomainsSuccess ==
    /\ pc = "try"
    /\ loop.op = "get_top_domains"
    /\ RemoteCallFits
    /\ Counted
    /\ LET brand == mcr.brands[mcr.k]
           made == [mcr.st EXCEPT !.heap = Append(@, CompanyDomainResult(mcr.website, mcr.company_name, brand.name))]
       IN  IF Len(brand.domains) > 0
           THEN /\ mcr' = [mcr EXCEPT !.st = made, !.domains = brand.domains]
                /\ loop' = StartLoop("get_brand_volume_and_esps", NamesOf(brand.domains))
                /\ pc' = "try"
           ELSE /\ mcr' = [mcr EXCEPT !.st = made, !.domains = <<>>, !.k = @ + 1]
                /\ loop' = NoneObj
                /\ pc' = "brands"
    /\ UNCHANGED <<stderr, crashed, ntokens, stack, ret, slept, errs>>
    /\ writerUnchanged /\ idleUnchanged

VolSuccess_without_break ==
    /\ pc = "try"
    /\ loop.op = "get_brand_volume_and_esps"
    /\ UNCHANGED vars

\* get_brand_volume_and_esps answers: the loops that fill and append res
VolSuccess ==
    /\ pc = "try"
    /\ loop.op = "get_brand_volume_and_esps"
    /\ RemoteCallFits
    /\ Counted
    /\ LET brand == mcr.brands[mcr.k]
       IN  mcr' = [mcr EXCEPT !.st = items_loop(mcr.st, mcr.k, domain_name_vol(mcr.domains),
                                                brand.vol_esps, 1),
                              !.domains = <<>>,
                              !.k = @ + 1]
    /\ loop' = NoneObj
    /\ pc' = "brands"
    /\ UNCHANGED <<stderr, crashed, ntokens, stack, ret, slept, errs>>
    /\ writerUnchanged /\ idleUnchanged

\* make_company_results: return result
McrReturn ==
    /\ pc = "brands"
    /\ mcr.k > Len(mcr.brands)
    /\ stack' = SetTop([Top EXCEPT !.res =
            ReturnList([i \in 1..Len(mcr.st.refs) |-> mcr.st.heap[mcr.st.refs[i]]])])
    /\ mcr' = NoneObj
    /\ pc' = "children"
    /\ UNCHANGED <<stderr, crashed, ntokens, loop, ret, api_calls, slept, errs, succeeded>>
    /\ writerUnchanged /\ idleUnchanged

\* for child_co in co.get('childCompanies'): company_info(ct, child id), up to
\* its remote call
ChildCall ==
    /\ pc = "children"
    /\ Top.ci <= Len(Top.children)
    /\ stack' = Append(stack, Frame("company_info", "None", Top.children[Top.ci]))
    /\ loop' = StartLoop("get_company_from_id", Top.children[Top.ci])
    /\ pc' = "try"
    /\ UNCHANGED <<stderr, crashed, ntokens, mcr, ret, api_calls, slept, errs, succeeded>>
    /\ writerUnchanged /\ idleUnchanged

\* get_company_from_id, called by the innermost company_info (line 145), needs
\* a frame beyond the recursion limit: RecursionError, which no except clause
\* takes
CompanyCallRaises ==
    /\ pc = "try"
    /\ loop.op = "get_company_from_id"
    /\ ~RemoteCallFits
    /\ crashed' = TRUE
    /\ pc' = "crashed"
    /\ UNCHANGED <<stderr, ntokens, stack, mcr, loop, ret, api_calls, slept, errs, succeeded>>
    /\ writerUnchanged /\ idleUnchanged

\* a remote call of make_company_results (lines 199, 220) or of
\* get_vol_avg_and_esps (line 260) needs a frame beyond the recursion limit:
\* RecursionError. get_vol_avg_and_esps has counted its call (line 259) when
\* register_call, three frames above the resolver call, still fitted; when it
\* did not, the error is raised before anything is counted (lines 230-259).
McrCallRaises ==
    /\ pc = "try"
    /\ loop.op \in {"get_all_company_brands", "get_top_domains", "get_brand_volume_and_esps"}
    /\ ~RemoteCallFits
    /\ api_calls' = IF registers_before_call(loop.op) /\ Fits(Nesting(loop.op) + 1)
                    THEN register_call(api_calls, call_name(loop.op))
                    ELSE api_calls
    /\ crashed' = TRUE
    /\ pc' = "crashed"
    /\ UNCHANGED <<stderr, ntokens, stack, mcr, loop, ret, slept, errs, succeeded>>
    /\ writerUnchanged /\ idleUnchanged

\* make_company_results is entered with the brands of the entity when one
\* frame is left above it: an interpreter that counts the comparison of line
\* 195 as a level of its own (CPython 3.11 counts calls made in C) raises
\* RecursionError there, another goes on to the brands
McrCompareRaises ==
    /\ pc = "brands"
    /\ mcr.k = 1
    /\ ~Fits(2)
    /\ crashed' = TRUE
    /\ pc' = "crashed"
    /\ UNCHANGED <<stderr, ntokens, stack, mcr, loop, ret, api_calls, slept, errs, succeeded>>
    /\ writerUnchanged /\ idleUnchanged

\* return res
FrameReturn ==
    /\ pc = "children"
    /\ Top.ci > Len(Top.children)
    /\ ret' = Top.res
    /\ stack' = Pop
    /\ pc' = "returned"
    /\ UNCHANGED <<stderr, crashed, ntokens, mcr, loop, api_calls, slept, errs, succeeded>>
    /\ writerUnchanged /\ idleUnchanged

\* ChildReturned putting the child's records before the records collected so far
ChildReturned_prepends ==
    /\ pc = "returned"
    /\ Len(stack) > 0
    /\ ~Top.res.none /\ ~ret.none
    /\ stack' = SetTop([Top EXCEPT !.res = ReturnList(ret.list \o @.list), !.ci = @ + 1])
    /\ ret' = NoneObj
    /\ pc' = "children"
    /\ UNCHANGED <<stderr, crashed, ntokens, mcr, loop, api_calls, slept, errs, succeeded>>
    /\ writerUnchanged /\ idleUnchanged

\* res += company_info(...), both lists
ChildReturned ==
    /\ pc = "returned"
    /\ Len(stack) > 0
    /\ ~Top.res.none /\ ~ret.none
    /\ stack' = SetTop([Top EXCEPT !.res = ReturnList(@.list \o ret.list), !.ci = @ + 1])
    /\ ret' = NoneObj
    /\ pc' = "children"
    /\ UNCHANGED <<stderr, crashed, ntokens, mcr, loop, api_calls, slept, errs, succeeded>>
    /\ writerUnchanged /\ idleUnchanged

\* res += company_info(...) with None on either side: TypeError
ChildReturnRaises ==
    /\ pc = "returned"
    /\ Len(stack) > 0
    /\ Top.res.none \/ ret.none
    /\ crashed' = TRUE
    /\ pc' = "crashed"
    /\ UNCHANGED <<stderr, ntokens, stack, mcr, loop, ret, api_calls, slept, errs, succeeded>>
    /\ writerUnchanged /\ idleUnchanged

\* main: if result: fh.write(result)
RunWrite ==
    /\ pc = "returned"
    /\ Len(stack) = 0
    /\ ~ret.none /\ Len(ret.list) > 0
    /\ result_none' = FALSE
    /\ LET w == write(verbose, fh, ret.list)
       IN  /\ fh' = w.fh /\ out' = w.out /\ headers' = headers + Len(HeaderRows(w.out))
           /\ result' = w.res
    /\ pc' = "main"
    /\ UNCHANGED <<stderr, verbose, crashed, ntokens, stack, mcr, loop, ret, api_calls, slept, errs, succeeded>>
    /\ idleUnchanged

\* main: else: eprint('! entry {} skipped - no results')
RunSkip ==
    /\ pc = "returned"
    /\ Len(stack) = 0
    /\ ret.none \/ Len(ret.list) = 0
    /\ result' = ret.list
    /\ result_none' = ret.none
    /\ stderr' = Append(stderr, "skipped")
    /\ pc' = "main"
    /\ UNCHANGED <<verbose, fh, out, headers, crashed, ntokens, stack, mcr, loop, ret, api_calls, slept, errs, succeeded>>
    /\ idleUnchanged

\* for infile in args.files: the next input file; fh = ResultWriter(args.verbose)
\* is a new writer on the same args.outfile
NextFile ==
    /\ pc = "main"
    /\ fh' = NoneObj
    /\ UNCHANGED <<verbose, result, out, headers, result_none, pc, crashed>>
    /\ UNCHANGED runvars
    /\ idleUnchanged

\* the steps of main inside one input file; the hierarchies of RunTrees keep
\* every call below the recursion limit
NextLine ==
    \/ MainToken \/ TryRaise
    \/ HandlerRaises \/ HandlerContinue \/ HandlerGiveUp
    \/ SendingDomainMissing \/ SendingDomainJsonRaises
    \/ McrGiveUp \/ VolGiveUp
    \/ DomainSuccess \/ SearchSuccess \/ CompanyEmpty \/ CompanySuccess \/ BrandsSuccess
    \/ BrandNext \/ TopDomainsSuccess \/ VolSuccess \/ McrReturn
    \/ ChildCall \/ FrameReturn \/ ChildReturned \/ ChildReturnRaises
    \/ RunWrite \/ RunSkip

NextRun == NextFile \/ NextLine

SpecRun == InitRun /\ [][NextRun]_vars

\* a run without the option -v (store_true: verbose is False)
InitRunSummary == InitRun /\ ~verbose

\* a run over one input file; the process keeps executing its next statement
FairSpecRun == InitRunSummary /\ [][NextLine]_vars /\ WF_vars(NextLine)

(***************************************************************************)
(* What the summary of a list of results is expected to be: its maximal    *)
(* runs of adjacent results with the same website, company_name,           *)
(* brand_name and ESPs, one row per run.                                   *)
(***************************************************************************)
SameKeys(r, s) ==
    /\ r.website = s.website
    /\ r.company_name = s.company_name
    /\ r.brand_name = s.brand_name
    /\ r.ESPs = s.ESPs

GroupStarts(res) == {i \in 1..Len(res) : i = 1 \/ ~SameKeys(res[i], res[i - 1])}

NumGroups(res) == Cardinality(GroupStarts(res))

NthStart(res, n) ==
    CHOOSE i \in GroupStarts(res) : Cardinality({j \in GroupStarts(res) : j <= i}) = n

RunEnd(res, i) ==
    CHOOSE j \in i..Len(res) :
        /\ \A m \in (i + 1)..j : m \notin GroupStarts(res)
        /\ j = Len(res) \/ (j + 1) \in GroupStarts(res)

RECURSIVE SumVolume(_, _, _)
SumVolume(res, i, j) == IF i > j THEN 0 ELSE res[i].volume + SumVolume(res, i + 1, j)

ExpectedRow(res, n) ==
    LET i == NthStart(res, n)
        j == RunEnd(res, i)
    IN  [website |-> res[i].website, company_name |-> res[i].company_name,
         brand_name |-> res[i].brand_name, volume |-> SumVolume(res, i, j),
         ESPs |-> join(res[i].ESPs.items), domain_count |-> j - i + 1]

SummaryWritten == pc = "written" /\ ~verbose

\* the two results differ in their domain and in nothing else
OnlyDomainDiffers(r, s) ==
    r.domain # s.domain /\ [r EXCEPT !.domain = s.domain] = s

\* the two lists of ESP names hold the same names, in any order
SameEspSet(a, b) ==
    /\ Len(a.items) = Len(b.items)
    /\ {a.items[i] : i \in 1..Len(a.items)} = {b.items[i] : i \in 1..Len(b.items)}

(***************************************************************************)
(* C1: in summary mode a call of write emits as many data rows as its      *)
(* argument has maximal runs of equal keys, so the last group is never     *)
(* lost, and an empty argument emits nothing.                              *)
(* The code drops the last group when no header has been written yet.      *)
(***************************************************************************)
C1_FinalGroupFlushed ==
    SummaryWritten => Len(DataRows(out)) = NumGroups(result)

(***************************************************************************)
(* C5: summary mode folds over contiguous runs. Every change of website,   *)
(* company_name, brand_name or ESPs between adjacent results writes the    *)
(* run before it as one row, carrying the run's keys, the sum of its       *)
(* volumes and its length as domain_count; results are merged only inside  *)
(* a run, so results with equal keys that a different result separates     *)
(* are in different rows.                                                  *)
(***************************************************************************)
C5_StreamingFold ==
    SummaryWritten =>
        LET rows == DataRows(out)
            n == NumGroups(result)
        IN  /\ Len(rows) <= n
            /\ Len(rows) >= n - 1
            /\ n >= 2 => Len(rows) = n
            /\ \A k \in 1..Len(rows) : rows[k].data = ExpectedRow(result, k)

C5_Witness ==
    /\ SummaryWritten
    /\ Len(result) = 3
    /\ SameKeys(result[1], result[2])
    /\ ~SameKeys(result[2], result[3])
    /\ Len(DataRows(out)) = 2
    /\ DataRows(out)[1].data.domain_count = 2
    /\ DataRows(out)[2].data.domain_count = 1

(***************************************************************************)
(* C6, as claimed: the list [A, B, A], B differing from A in its domain    *)
(* only, is written as three rows.                                         *)
(***************************************************************************)
C6_DomainOnlyThreeGroups ==
    (/\ SummaryWritten
     /\ Len(result) = 3
     /\ result[1] = result[3]
     /\ OnlyDomainDiffers(result[1], result[2]))
        => Len(DataRows(out)) = 3

(***************************************************************************)
(* C6, amended: the list [A, B, A] is written as three rows when B differs *)
(* from A in website, company_name, brand_name or ESPs; when B differs     *)
(* from A in its domain only, the three results are merged into one group  *)
(* of domain_count 3, written as one row by a writer that has written its  *)
(* header and not written by a fresh writer.                               *)
(***************************************************************************)
C6_KeyChangeThreeGroups ==
    (/\ SummaryWritten
     /\ Len(result) = 3
     /\ result[1] = result[3])
        => LET rows == DataRows(out)
           IN  /\ ~SameKeys(result[1], result[2]) => Len(rows) = 3
               /\ OnlyDomainDiffers(result[1], result[2]) =>
                    /\ Len(rows) = (IF fh = NoneObj THEN 0 ELSE 1)
                    /\ \A k \in 1..Len(rows) :
                         /\ rows[k].data.domain_count = 3
                         /\ rows[k].data.volume = SumVolume(result, 1, 3)

C6_Witness ==
    /\ SummaryWritten
    /\ Len(result) = 3
    /\ result[1] = result[3]
    /\ ~SameKeys(result[1], result[2])
    /\ result[1].domain = result[2].domain
    /\ Len(DataRows(out)) = 3

(***************************************************************************)
(* C7: in summary mode two adjacent results with the same website,         *)
(* company_name and brand_name whose ESP lists are permutations of each    *)
(* other are merged into one group.                                        *)
(* The code compares the two lists with ==, which is sensitive to order.   *)
(***************************************************************************)
C7_EspsComparedAsSet ==
    (/\ SummaryWritten
     /\ Len(result) = 2
     /\ result[1].website = result[2].website
     /\ result[1].company_name = result[2].company_name
     /\ result[1].brand_name = result[2].brand_name
     /\ SameEspSet(result[1].ESPs, result[2].ESPs))
        => Len(DataRows(out)) <= 1

(***************************************************************************)
(* What the resolver is expected to make of a brand: one result per        *)
(* sending domain, carrying that domain's projected volume and ESP list.   *)
(***************************************************************************)
DistinctNames(domains) ==
    \A i, j \in 1..Len(domains) : domains[i].name = domains[j].name => i = j

\* every domain of the brand has a single entry in the volume/ESP breakdown
SingleEntries(b) == \A d \in NamesOf(b.domains) : Len(b.vol_esps[d]) = 1

RECURSIVE SumProjected(_)
SumProjected(domains) ==
    IF Len(domains) = 0 THEN 0
    ELSE domains[1].projectedVolume + SumProjected(Tail(domains))

ExpectedVerboseRow(b, i) ==
    [website |-> Token, company_name |-> CompanyName, brand_name |-> b.name,
     domain |-> b.domains[i].name, volume |-> b.domains[i].projectedVolume,
     ESPs |-> join(b.vol_esps[b.domains[i].name][1])]

TokenDone == pc \in {"written", "skipped"}

(***************************************************************************)
(* C2: in summary mode, a token resolving to a company with one brand      *)
(* whose n sending domains all have the same ESPs is written as a single   *)
(* row whose volume is the sum of the n projected volumes and whose        *)
(* domain_count is n.                                                      *)
(* The code writes no row at all for the first such token (C1), and the    *)
(* n results of the brand are one object holding the last domain's volume  *)
(* (C3), so the volume written is n times the last volume.                 *)
(***************************************************************************)
C2_SummarySingleRow ==
    (/\ TokenDone
     /\ ~verbose
     /\ Len(brands_in) = 1
     /\ Len(brands_in[1].domains) >= 1
     /\ DistinctNames(brands_in[1].domains)
     /\ SingleEntries(brands_in[1])
     /\ \A d, e \in NamesOf(brands_in[1].domains) :
            brands_in[1].vol_esps[d] = brands_in[1].vol_esps[e])
        => LET rows == DataRows(out)
           IN  /\ Len(rows) = 1
               /\ rows[1].data.volume = SumProjected(brands_in[1].domains)
               /\ rows[1].data.domain_count = Len(brands_in[1].domains)

(***************************************************************************)
(* C3: the resolver makes one result per (brand, domain) and verbose mode  *)
(* writes them verbatim: for a brand with domains d1..dn the n rows carry  *)
(* d1..dn, each with its own projected volume and ESPs.                    *)
(* The code appends the same object n times, so every row of the brand     *)
(* shows the last domain.                                                  *)
(***************************************************************************)
C3_VerboseRowPerDomain ==
    (/\ TokenDone
     /\ verbose
     /\ Len(brands_in) = 1
     /\ Len(brands_in[1].domains) >= 1
     /\ DistinctNames(brands_in[1].domains)
     /\ SingleEntries(brands_in[1]))
        => LET rows == DataRows(out)
           IN  /\ Len(rows) = Len(brands_in[1].domains)
               /\ \A i \in 1..Len(rows) : rows[i].data = ExpectedVerboseRow(brands_in[1], i)

(***************************************************************************)
(* C4: a brand with no sending domains yields one result with a null       *)
(* domain in the resolver's list; no brand is dropped from the list.       *)
(* The code makes the result and never appends it.                         *)
(***************************************************************************)
C4_BrandNeverDropped ==
    (pc = "resolved" /\ ~result_none)
        => /\ Len(result) >= Len(brands_in)
           /\ \A k \in 1..Len(brands_in) :
                Len(brands_in[k].domains) = 0 =>
                    \E i \in 1..Len(result) :
                        /\ result[i].brand_name = brands_in[k].name
                        /\ result[i].domain = "None"

(***************************************************************************)
(* The retry loops.                                                        *)
(***************************************************************************)
\* the error is the one the remote service raises on its per-second limit
IsRetryError(err) ==
    /\ err.status \in {503, 429}
    /\ Len(err.errors) > 0
    /\ err.errors[1].over_qps_limit
    /\ ~err.errors[1].over_rate_limit

InRetryLoop == pc \in {"try", "except"}

\* the value of a counter of a dictionary, 0 when the key is missing
Count(d, name) == IF name \in DOMAIN d THEN d[name] ELSE 0

(***************************************************************************)
(* C8: a per-second-limit error (status 503 or 429) caught in a retry loop *)
(* is absorbed: the only step from there sleeps retry_wait_secs once and   *)
(* makes the same call with the same arguments again, in the same resolver *)
(* call and for the same token; a call is made again only after such an    *)
(* error and its sleep, and the program sleeps nowhere else.               *)
(***************************************************************************)
C8_RetryAbsorbed ==
    [][/\ (pc = "except" /\ IsRetryError(loop.err)) =>
            /\ pc' = "try"
            /\ loop'.op = loop.op
            /\ loop'.arg = loop.arg
            /\ loop'.attempts = loop.attempts
            /\ stack' = stack
            /\ mcr' = mcr
            /\ ntokens' = ntokens
            /\ crashed' = crashed
            /\ slept' = slept + retry_wait_secs
       /\ (pc = "except" /\ pc' = "try") =>
            /\ IsRetryError(loop.err)
            /\ slept' = slept + retry_wait_secs
       /\ slept' # slept =>
            /\ pc = "except"
            /\ IsRetryError(loop.err)
            /\ pc' = "try"
      ]_vars

C8_Witness ==
    /\ pc = "try"
    /\ loop.attempts = 2
    /\ loop.naps = 2
    /\ slept = 2 * retry_wait_secs

(***************************************************************************)
(* C9: every retry loop terminates once the remote service stops raising   *)
(* the per-second-limit error: a loop that is being executed is eventually *)
(* left, with the response, with None after another error, or with the     *)
(* exception the handler raises; and the loop has no cap, whatever the     *)
(* number of calls made, a per-second-limit error leads to another call.   *)
(***************************************************************************)
C9_RetryLoopsTerminate ==
    /\ InRetryLoop ~> ~InRetryLoop
    /\ [][(pc = "except" /\ IsRetryError(loop.err)) =>
             (pc' = "try" /\ loop'.op = loop.op /\ loop'.attempts = loop.attempts)]_vars

C9_Witness ==
    /\ pc = "brands"
    /\ Count(api_calls, call_name("get_brand_volume_and_esps")) = 2
    /\ Count(succeeded, call_name("get_brand_volume_and_esps")) = 1
    /\ slept >= retry_wait_secs

(***************************************************************************)
(* C10: the counter of every remote operation in api_calls is the number   *)
(* of its invocations that returned a response; a call that ends in an     *)
(* error is not counted.                                                   *)
(* get_vol_avg_and_esps counts before it calls, so every attempt counts.   *)
(***************************************************************************)
C10_CountedOncePerSuccess ==
    \A op \in Ops :
        Count(api_calls, call_name(op)) = Count(succeeded, call_name(op))

(***************************************************************************)
(* The errors that are not absorbed by a retry.                            *)
(***************************************************************************)
\* the error is the one the remote service raises on the account's daily limit
IsAccountFatal(err) ==
    /\ err.status \in {503, 429}
    /\ Len(err.errors) > 0
    /\ err.errors[1].over_rate_limit

\* whether line has been printed with eprint for the current token
Logged(line) == \E i \in 1..Len(stderr) : stderr[i] = line

\* a remote call of the current token has been made
CallMade ==
    \/ succeeded # <<>>
    \/ IF loop = NoneObj THEN FALSE ELSE loop.attempts > 0

(***************************************************************************)
(* C11: an error with status 503 or 429 whose first message holds          *)
(* 'Account Over Rate Limit' halts the run: once it has been caught        *)
(* (rate_limiting_in has printed its notice) while a token is resolved,    *)
(* main takes no further token, so that no remote call is made and no row  *)
(* is written for a later one.                                             *)
(* The code returns None from the loop, main skips the token and takes the *)
(* next one.                                                               *)
(***************************************************************************)
C11_AccountFatalHaltsRun ==
    [][Logged("daily_limit") => ntokens' = ntokens]_vars

\* the first message of the error is the body {code: 404, type: MISSING}
IsNotFound(err) ==
    /\ Len(err.errors) > 0
    /\ err.errors[1].json = "missing"

\* the classifier itself fails on the error (C15)
ClassifierRaises(err) == err.status \in {503, 429} /\ Len(err.errors) = 0

\* an error that is none of the above
IsOtherFatal(err) ==
    /\ ~IsRetryError(err)
    /\ ~IsAccountFatal(err)
    /\ ~IsNotFound(err)
    /\ ~ClassifierRaises(err)

\* the process has ended on an exception other than the classifier's IndexError
CrashedOutsideClassifier ==
    /\ crashed
    /\ IF loop = NoneObj THEN TRUE ELSE ~ClassifierRaises(loop.err)

\* eprint(err) has printed, for the current token, an error for which
\* rate_limiting_in printed no notice
ErrLoggedWithoutNotice ==
    \E i \in 1..Len(stderr) :
        /\ stderr[i] = "err"
        /\ IF i = 1 THEN TRUE ELSE stderr[i - 1] # "daily_limit"

\* an unclassified error has been caught while the current token is resolved
OtherFatalCaught ==
    \/ ErrLoggedWithoutNotice
    \/ IF loop = NoneObj THEN FALSE
       ELSE IF loop.err = NoneObj THEN FALSE
       ELSE pc \in {"except", "crashed"} /\ IsOtherFatal(loop.err)

(***************************************************************************)
(* C12: an unclassified remote error, caught in any retry loop while a     *)
(* token is being resolved, skips that token only: the process does not    *)
(* end on an exception, and when main is back at the head of its loop no   *)
(* row has been written for the token, and the error and the skip notice   *)
(* have been printed.                                                      *)
(* In the code the None that a loop returns is subscripted by              *)
(* make_company_results, or added to a list by the caller of company_info  *)
(* or of make_company_results; json.loads raises on a message that is not  *)
(* JSON in sending-domain mode.                                            *)
(***************************************************************************)
C12_OtherFatalSkipsToken ==
    OtherFatalCaught =>
        /\ ~CrashedOutsideClassifier
        /\ pc = "main" =>
                /\ Len(DataRows(out)) = 0
                /\ Logged("err")
                /\ Logged("skipped")

(***************************************************************************)
(* C13: in sending-domain mode, when the lookup of the company raises an   *)
(* error whose first message is the body {code: 404, type: MISSING}, the   *)
(* resolver returns None to main at once, without printing the error and   *)
(* without another remote call; main then prints the skip notice, writes   *)
(* no row and is at the head of its loop, where the next token is taken.   *)
(***************************************************************************)
C13_NotFoundSkipsQuietly ==
    [][/\ (pc = "except" /\ InSendingDomainLoop /\ IsNotFound(loop.err)) =>
            /\ pc' = "returned"
            /\ ret' = ReturnNone
            /\ stack' = <<>>
            /\ stderr' = stderr
            /\ api_calls' = api_calls
            /\ succeeded' = succeeded
            /\ out' = out
            /\ ~crashed'
       /\ (pc = "returned" /\ stack = <<>> /\ ret.none) =>
            /\ pc' = "main"
            /\ stderr' = Append(stderr, "skipped")
            /\ api_calls' = api_calls
            /\ out' = out
            /\ ~crashed'
      ]_vars

C13_Witness ==
    /\ input_type = "sending_domain"
    /\ pc = "main"
    /\ ntokens = 1
    /\ ntokens < MaxTokens
    /\ errs = 1
    /\ slept = 0
    /\ stderr = <<"skipped">>
    /\ Len(out) = 0
    /\ ~crashed

(***************************************************************************)
(* C14: in website mode a token for which org_domain returns None is       *)
(* rejected before any remote call: no remote operation is invoked for the *)
(* token and its api_calls holds no counter.                               *)
(* get_company_info_from_website passes the None to get_company_from_domain.*)
(***************************************************************************)
C14_InvalidInputNoRemoteCall ==
    (/\ input_type = "website"
     /\ ntokens > 0
     /\ org_domain(api_calls["_company_site"]) = "None")
        => /\ ~CallMade
           /\ DOMAIN api_calls = {"_company_site"}

(***************************************************************************)
(* SpecClassify: rate_limiting_in applied to an error of any status with   *)
(* any list of messages, as the handler of a retry loop applies it.        *)
(***************************************************************************)
\* a message that holds both of the texts rate_limiting_in looks for
MsgBoth == [over_rate_limit |-> TRUE, over_qps_limit |-> TRUE, json |-> "invalid"]

ClassifierStatuses == Statuses \cup {500}
ClassifierMessages == Messages \cup {MsgBoth}
ClassifierErrors ==
    [status : ClassifierStatuses,
     errors : UNION {[1..n -> ClassifierMessages] : n \in 0..MaxMsgs}]

InitClassify ==
    /\ verbose = FALSE
    /\ fh = NoneObj
    /\ result = <<>>
    /\ out = <<>>
    /\ headers = 0
    /\ crashed = FALSE
    /\ brands_in = <<>>
    /\ inline = TRUE
    /\ result_none = FALSE
    /\ input_type = "website"
    /\ ntokens = 0
    /\ world = NoneObj
    /\ stack = <<>>
    /\ mcr = NoneObj
    /\ ret = NoneObj
    /\ api_calls = <<>>
    /\ slept = 0
    /\ errs = 0
    /\ succeeded = <<>>
    /\ stderr = <<>>
    /\ pc = "except"
    /\ \E e \in ClassifierErrors : loop = [StartLoop("get_company_from_id", 1) EXCEPT !.err = e]

classifyUnchanged ==
    UNCHANGED <<verbose, fh, result, out, headers, brands_in, inline, result_none, input_type,
                ntokens, world, stack, mcr, loop, api_calls, errs, succeeded, stderr>>

\* rate_limiting_in(err) returns
ClassifyReturns ==
    /\ pc = "except"
    /\ LET rl == rate_limiting_in(loop.err)
       IN  /\ ~rl.raises
           /\ ret' = [value |-> rl.ret]
           /\ slept' = slept + rl.sleep
    /\ pc' = "classified"
    /\ crashed' = crashed
    /\ classifyUnchanged

\* msg = err.errors[0] raises IndexError
ClassifyRaises ==
    /\ pc = "except"
    /\ rate_limiting_in(loop.err).raises
    /\ crashed' = TRUE
    /\ pc' = "crashed"
    /\ UNCHANGED <<ret, slept>>
    /\ classifyUnchanged

NextClassify == ClassifyReturns \/ ClassifyRaises

SpecClassify == InitClassify /\ [][NextClassify]_vars

(***************************************************************************)
(* C15: the classifier is total and classifies every error: status 503 or  *)
(* 429 with the per-second text in the first message is a retry after a    *)
(* sleep of retry_wait_secs; status 503 or 429 with the account-limit text *)
(* in the first message is fatal, without sleep; anything else (another    *)
(* first message, no message at all, another status) is fatal, without     *)
(* sleep. A first message holding both texts is left to either of the      *)
(* first two cases.                                                        *)
(* The code raises IndexError on status 503 or 429 with no message.        *)
(***************************************************************************)
C15_ClassifierTotal ==
    pc \in {"classified", "crashed"} =>
        LET err == loop.err
            limited == err.status \in {503, 429}
            hasMsg == Len(err.errors) > 0
            qps == limited /\ hasMsg /\ err.errors[1].over_qps_limit
            rate == limited /\ hasMsg /\ err.errors[1].over_rate_limit
            retry == ret.value /\ slept = retry_wait_secs
            fatal == ~ret.value /\ slept = 0
        IN  /\ ~crashed
            /\ pc = "classified"
            /\ (qps /\ ~rate) => retry
            /\ (rate /\ ~qps) => fatal
            /\ (qps /\ rate) => (retry \/ fatal)
            /\ (~qps /\ ~rate) => fatal

(***************************************************************************)
(* Aggregation applied to its own output.                                  *)
(***************************************************************************)
\* the rows written for the caller's list, and the rows written when these
\* (now the list result) were handed to write again
FirstRows == SubSeq(DataRows(out), 1, Len(result))
SecondRows == SubSeq(DataRows(out), Len(result) + 1, Len(DataRows(out)))

(***************************************************************************)
(* C16 as stated: summary aggregation is a fixed point on pre-grouped      *)
(* input: the rows written for a list in which results with the same       *)
(* grouping keys are adjacent, handed to write again as results, are       *)
(* written again as the same rows.                                         *)
(***************************************************************************)
C16_AggregationFixedPoint ==
    pc = "reaggregated"
        => [i \in 1..Len(SecondRows) |-> SecondRows[i].data]
            = [i \in 1..Len(FirstRows) |-> FirstRows[i].data]

(***************************************************************************)
(* C16 amended: the rows written for a pre-grouped list, handed to write   *)
(* again, are written again one for one and in the same order, with the    *)
(* same website, company_name, brand_name, volume and ESPs; domain_count   *)
(* is 1 in each of them, being the number of results merged.               *)
(***************************************************************************)
C16_ReaggregationKeepsAllButCount ==
    pc = "reaggregated"
        => /\ Len(SecondRows) = Len(FirstRows)
           /\ \A i \in 1..Len(FirstRows) :
                SecondRows[i].data = [FirstRows[i].data EXCEPT !.domain_count = 1]

C16_Witness ==
    /\ pc = "reaggregated"
    /\ Len(FirstRows) = 2
    /\ FirstRows[1].data.domain_count = 2
    /\ SecondRows[1].data.domain_count = 1
    /\ SecondRows[1].data.volume = FirstRows[1].data.volume

(***************************************************************************)
(* SpecExpand: the main loop when every remote call answers, over the      *)
(* hierarchies of ExpandTrees: the recursion of company_info into the      *)
(* child companies, call by call.                                          *)
(***************************************************************************)
InitExpand ==
    /\ verbose \in BOOLEAN
    /\ fh = NoneObj
    /\ result = <<>>
    /\ out = <<>>
    /\ headers = 0
    /\ pc = "main"
    /\ crashed = FALSE
    /\ brands_in = <<>>
    /\ inline = TRUE
    /\ result_none = FALSE
    /\ input_type \in InputTypes
    /\ ntokens = 0
    /\ world \in ExpandWorlds
    /\ stack = <<>>
    /\ mcr = NoneObj
    /\ loop = NoneObj
    /\ ret = NoneObj
    /\ api_calls = <<>>
    /\ slept = 0
    /\ errs = 0
    /\ succeeded = <<>>
    /\ stderr = <<>>

NextExpand ==
    \/ MainToken
    \/ DomainSuccess \/ SearchSuccess \/ CompanyEmpty \/ CompanySuccess \/ BrandsSuccess
    \/ BrandNext \/ TopDomainsSuccess \/ VolSuccess \/ McrReturn
    \/ ChildCall \/ CompanyCallRaises \/ McrCallRaises \/ McrCompareRaises
    \/ FrameReturn \/ ChildReturned \/ ChildReturnRaises
    \/ RunWrite \/ RunSkip

SpecExpand == InitExpand /\ [][NextExpand]_vars

\* the records make_company_results returns for the own brands of company id
OwnRecords(w, website, id) ==
    make_company_results(website, CompanyNames[id], w.inline, BrandsOf(w, id))

RECURSIVE Expansion(_, _, _)
RECURSIVE ExpansionOfChildren(_, _, _)
\* the depth-first expansion of company id: its own records, then the
\* expansions of its children in listed order
Expansion(w, website, id) ==
    OwnRecords(w, website, id).list \o ExpansionOfChildren(w, w.tree[id], Len(w.tree[id]))

\* the expansions of the first n of the listed children, one after the other
ExpansionOfChildren(w, children, n) ==
    IF n = 0 THEN <<>>
    ELSE ExpansionOfChildren(w, children, n - 1)
            \o Expansion(w, CompanyUrls[children[n]], children[n])

\* frame i of the stack has its own records and is in its loop over the children
InChildLoop(i) == i < Len(stack) \/ pc = "children"

\* C17: the list a resolver holds while it walks its children, and returns
\* after the last one, is the records of the company's own brands followed by
\* the complete depth-first expansions of the children returned so far, in
\* the order the entity lists them.
C17_DepthFirstListedOrder ==
    \A i \in 1..Len(stack) :
        (InChildLoop(i) /\ ~stack[i].res.none) =>
            stack[i].res.list =
                OwnRecords(world, stack[i].website, stack[i].id).list
                    \o ExpansionOfChildren(world, stack[i].children, stack[i].ci - 1)

\* the root of the diamond has walked both children: two records each of
\* c1, c2, c4, c3, c4
C17_Witness ==
    /\ pc = "children" /\ Len(stack) = 1
    /\ world.tree = Diamond
    /\ Top.ci > Len(Top.children)
    /\ ~Top.res.none
    /\ Len(Top.res.list) = 10
    /\ [i \in 1..10 |-> Top.res.list[i].company_name]
            = <<"c1", "c1", "c2", "c2", "c4", "c4", "c3", "c3", "c4", "c4">>

\* the companies listed as children of the companies of S
ChildrenOf(t, S) == UNION {{t[i][k] : k \in 1..Len(t[i])} : i \in S}

RECURSIVE Reach(_, _, _)
\* the companies reached from S in 1..n steps down the hierarchy
Reach(t, S, n) ==
    IF n = 0 THEN {}
    ELSE LET C == ChildrenOf(t, S) IN C \cup Reach(t, C, n - 1)

\* no company is its own descendant
Acyclic(t) == \A i \in CompanyIds : i \notin Reach(t, {i}, Len(CompanyNames))

RECURSIVE PathsFrom(_, _)
RECURSIVE PathsThrough(_, _, _)
\* the number of paths that lead from company id down to a descendant
\* (acyclic hierarchies only)
PathsFrom(t, id) == PathsThrough(t, t[id], Len(t[id]))

PathsThrough(t, children, n) ==
    IF n = 0 THEN 0
    ELSE PathsThrough(t, children, n - 1) + 1 + PathsFrom(t, children[n])

\* the hierarchy the remote service reports: an empty entity lists no children,
\* so where get_company_from_id answers empty only the entity of the domain
\* lookup has any
Hierarchy ==
    IF world.empty
    THEN [i \in CompanyIds |-> IF i = 1 /\ input_type # "company_name"
                                THEN world.tree[1] ELSE <<>>]
    ELSE world.tree

\* the fetches by id the resolution of one token owes: one per path from the
\* root to a descendant, and the root itself when it was found by name
ExpectedFetches ==
    PathsFrom(Hierarchy, 1) + (IF input_type = "company_name" THEN 1 ELSE 0)

FetchesById == Count(succeeded, "ct.core.graph.company")

\* the resolution of the current token has ended
TokenEnded == ntokens > 0 /\ pc \in {"main", "crashed"}

\* C18: on an acyclic hierarchy the resolution of a token ends with every
\* descendant fetched once per path, and on a hierarchy where a company is
\* its own descendant it never ends.
\* The code ends the resolution of the diamond whose companies have no brands
\* with the TypeError of 'res += ...' on None after two of its four fetches,
\* and that of a cyclic hierarchy with RecursionError.
C18_EndsUnlessCyclic ==
    /\ (Acyclic(world.tree) /\ TokenEnded) => FetchesById = ExpectedFetches
    /\ (~Acyclic(world.tree) /\ ntokens > 0) => ~TokenEnded

\* C19: in one run args.outfile gets one header row at most, and it comes
\* before every data row: whatever a call of write puts out after its first
\* line is data rows, and nothing is written unless the header has been.
\* The code makes a new ResultWriter for every input file, and each of them
\* writes the header again to the same args.outfile.
C19_HeaderOncePerStream ==
    /\ headers <= 1
    /\ Len(out) > 0 => headers >= 1
    /\ \A i \in 2..Len(out) : out[i].kind = "row"

RECURSIVE SumOver(_, _)
\* the sum of the first n numbers of the sequence f
SumOver(f, n) == IF n = 0 THEN 0 ELSE f[n] + SumOver(f, n - 1)

\* fh.write(result) is called and returns
WriteCall == pc = "caller" /\ pc' = "written"

\* C20: a call of write leaves every result of its list as it was, and in
\* summary mode its rows account for the results of this list and no others:
\* through a writer that is open after the call the domain_counts of the
\* rows add up to the length of the list and their volumes to the volumes of
\* the list, whatever the writer wrote for earlier lists; a writer still
\* closed has written nothing.
C20_WriteStartsEmptyKeepsInput ==
    [][WriteCall =>
        /\ result' = result
        /\ ~verbose =>
            LET rows == DataRows(out')
                counts == [k \in 1..Len(rows) |-> rows[k].data.domain_count]
                volumes == [k \in 1..Len(rows) |-> rows[k].data.volume]
            IN  IF fh' = NoneObj
                THEN Len(rows) = 0
                ELSE /\ SumOver(counts, Len(rows)) = Len(result)
                     /\ SumOver(volumes, Len(rows)) = SumVolume(result, 1, Len(result))]_vars

\* a writer that has written an earlier list merges two results of the
\* next list into one row of domain_count 2
C20_Witness ==
    /\ pc = "written"
    /\ ~verbose
    /\ fh # NoneObj
    /\ HeaderRows(out) = <<>>
    /\ Len(result) = 2
    /\ SameKeys(result[1], result[2])
    /\ result[1].volume > 0 /\ result[2].volume > 0
    /\ Len(DataRows(out)) = 1
    /\ DataRows(out)[1].data.domain_count = 2

====
